---- MODULE Spec2Model ----
(***************************************************************************)
(* A model of src/models/lm_vae.py: the training procedure of lm_VAE      *)
(* (training_step, validation_step, the aggressive-training controller and *)
(* the KL-weight annealing) and the decoding procedures of LSTM_Decoder.   *)
(*                                                                         *)
(* training_step is one handler; it is modelled by three actions that the  *)
(* program counter pc forces to run in the order of the code:              *)
(*   BeginTrainingStep  lines 532-555 (controller evaluation, ceiling)     *)
(*   InnerIteration     lines 560-581 (one pass of the aggressive loop)    *)
(*   JointStep          lines 583-612 (joint forward, optimizers, anneal)  *)
(* An exception raised by the code ends the run: pc = "error".             *)
(***************************************************************************)
EXTENDS Integers, Sequences, FiniteSets, TLC

(***************************************************************************)
(* Bounds of the model.                                                    *)
(***************************************************************************)
\* the harness stops after the epoch with this index (epochs 0..MaxEpoch)
MaxEpoch == 2
\* training batches per epoch that the controller specification draws from
MaxBatches == 2
\* validation batches between two epoch starts
MaxValBatches == 2
\* configured patience values are 0..MaxPatience
MaxPatience == 2
\* configured max_aggressive_epochs are 0..MaxCeiling
MaxCeiling == 3

(***************************************************************************)
(* Python floats (IEEE-754 binary64), for kl_weight.  A float x in [0, 4)  *)
(* that is a multiple of 2^-58 is the triple of base-2^20 limbs of the     *)
(* integer x * 2^58, least significant limb first.  Sums are rounded to 53 *)
(* significant bits, ties to even, as the hardware does.                   *)
(***************************************************************************)
LimbBase == 2^20

FxZero == <<0, 0, 0>>
\* 1.0 = 2^58
FxOne == <<0, 0, 2^18>>
\* 0.1 = 0x1.999999999999ap-4 = 0x66666666666668 * 2^-58
FxTenth == <<419432, 419430, 26214>>
\* 0.25 = 2^56 * 2^-58 ; 0.5 = 2^57 * 2^-58 ; 1.5 = 3 * 2^57 * 2^-58
FxQuarter == <<0, 0, 2^16>>
FxHalf == <<0, 0, 2^17>>
FxOneAndHalf == <<0, 0, 3 * 2^17>>

\* exact sum of two fixed-point numbers
FxAdd(x, y) ==
    LET s0 == x[1] + y[1]
        s1 == x[2] + y[2] + (s0 \div LimbBase)
        s2 == x[3] + y[3] + (s1 \div LimbBase)
    IN  <<s0 % LimbBase, s1 % LimbBase, s2>>

\* x - y for x >= y
FxSub(x, y) ==
    LET d0 == x[1] - y[1]
        b0 == IF d0 < 0 THEN 1 ELSE 0
        d1 == x[2] - y[2] - b0
        b1 == IF d1 < 0 THEN 1 ELSE 0
    IN  <<d0 + b0 * LimbBase, d1 + b1 * LimbBase, x[3] - y[3] - b1>>

FxLess(x, y) ==
    \/ x[3] < y[3]
    \/ x[3] = y[3] /\ x[2] < y[2]
    \/ x[3] = y[3] /\ x[2] = y[2] /\ x[1] < y[1]

FxLeq(x, y) == ~FxLess(y, x)

RECURSIVE BitLen(_)
BitLen(n) == IF n = 0 THEN 0 ELSE 1 + BitLen(n \div 2)

FxBitLen(x) ==
    IF x[3] > 0 THEN 40 + BitLen(x[3])
    ELSE IF x[2] > 0 THEN 20 + BitLen(x[2])
    ELSE BitLen(x[1])

\* round to 53 significant bits, ties to even (at most 60 - 53 bits are dropped)
RoundDouble(x) ==
    LET d == FxBitLen(x) - 53 IN
    IF d <= 0 THEN x
    ELSE LET p    == 2^d
             r    == x[1] % p
             down == <<x[1] - r, x[2], x[3]>>
             odd  == ((x[1] \div p) % 2) = 1
         IN  IF r > (p \div 2) \/ (r = (p \div 2) /\ odd)
             THEN FxAdd(down, <<p, 0, 0>>)
             ELSE down

\* the float a + b
FloatAdd(a, b) == RoundDouble(FxAdd(a, b))

\* Python's min(a, b): the first argument unless the second is smaller
FloatMin(a, b) == IF FxLess(b, a) THEN b ELSE a

(***************************************************************************)
(* Rationals <<numerator, denominator>> in lowest terms, for the normalised *)
(* MI and the loss per word.                                               *)
(***************************************************************************)
RECURSIVE Gcd(_, _)
Gcd(a, b) == IF b = 0 THEN a ELSE Gcd(b, a % b)

Abs(n) == IF n < 0 THEN -n ELSE n

\* n / d for d > 0
Rat(n, d) == LET g == Gcd(Abs(n), d) IN <<n \div g, d \div g>>

RatLess(a, b) == a[1] * b[2] < b[1] * a[2]


(***************************************************************************)
(* State of lm_VAE and of the harness that drives it.                      *)
(***************************************************************************)
VARIABLES
    hparams,            \* the constructor's arguments (save_hyperparameters)
    num_train_batches,  \* harness: training batches per epoch
    num_val_batches,    \* harness: validation batches per epoch
    val_mid_epoch,      \* harness: validation also runs between the batches of an epoch
    current_epoch,      \* harness: self.current_epoch
    batch_idx,          \* harness: index of the next training batch
    val_idx,            \* harness: validation batches run in this epoch
    aggressive, mi_patience, stable_mi, mi_prev, mi_curr, val_batches,
    kl_weight,
    pc,                 \* "idle", "inner", "joint" or "error"
    i,                  \* training_step's loop variable
    burn_num_words, burn_pre_loss, burn_cur_loss,
    step_log,           \* what the current (or last) training_step did, in order
    hist                \* history of the run (not program state)

(***************************************************************************)
(* State of one decoding session of LSTM_Decoder: beam_search_decode and   *)
(* then greedy_decode, called with the same latent codes z.                *)
(***************************************************************************)
VARIABLES
    call,                   \* the arguments [K, max_length, batch_size], and who calls
    logits,                 \* the decoder network, as far as it has been run
    dpc,                    \* where the session is
    idx,                    \* beam_search_decode: the sentence being decoded
    t,                      \* beam_search_decode: expansion steps of the sentence
    nodes,                  \* beam_search_decode: the BeamSearchNode objects
    live_hypotheses,        \* ... as indexes into nodes
    completed_hypotheses,
    beam_decoded_batch,     \* beam_search_decode: decoded_batch
    beam_result,            \* what beam_search_decode returned
    length_c, mask, decoder_input, decoder_hidden,
    greedy_decoded_batch,   \* greedy_decode: decoded_batch
    greedy_result           \* what greedy_decode returned

(***************************************************************************)
(* State of one call of lm_VAE.decode or lm_VAE.latent_sweep.              *)
(***************************************************************************)
VARIABLES
    api_call,       \* the call: method, arguments, self.decoding_strategy, sizes
    api_pc,         \* "idle", "called", "encoded", "decoding", "returned", "error"
    z_size,         \* z.size() of the latent codes handed to the decoder
    encoder_runs,   \* how often self.encoder has been run
    raised_at,      \* the line that raised (0: none)
    returned        \* what the call returned

apiVars == <<api_call, api_pc, z_size, encoder_runs, raised_at, returned>>

decVars == <<call, logits, dpc, idx, t, nodes, live_hypotheses,
             completed_hypotheses, beam_decoded_batch, beam_result, length_c,
             mask, decoder_input, decoder_hidden, greedy_decoded_batch,
             greedy_result>>

trainVars == <<hparams, num_train_batches, num_val_batches, val_mid_epoch, current_epoch,
               batch_idx, val_idx, aggressive, mi_patience, stable_mi, mi_prev,
               mi_curr, val_batches, kl_weight, pc, i, burn_num_words,
               burn_pre_loss, burn_cur_loss, step_log, hist>>

\* MI estimates a validation batch can report (the estimate can dip below 0)
MIVals == {-1, 1}
\* loss.sum() of one inner iteration
LossVals == {1, 2}
\* batch.text.size(): (sents_len, batch_size)
SentsLen == 3
BatchSize == 2

\* line 558
BurnPreLossInit == <<10000, 1>>

NoEval == [done |-> FALSE]

\* a checkpoint of the inner loop: the step, the average loss per word of the
\* window just ended and of the window before it (<<0, 0>>: there was none),
\* the value it was compared with, and whether the loop broke
NoCheckpoint == [at |-> 0, avg |-> <<0, 1>>, before |-> <<0, 0>>,
                 prev |-> <<0, 1>>, broke |-> FALSE]

HistInit ==
    [outer_steps     |-> 0,      \* training steps that ran to their end
     val_sum         |-> 0,      \* sum of the MI of the validation batches since
     val_n           |-> 0,      \*   the last evaluation, and their number
     evals           |-> 0,      \* epoch-start evaluations completed
     decreases       |-> 0,      \* ... of them, with the MI strictly lower
     never_improved  |-> TRUE,   \* no evaluation's MI was above the previous one's
     aggr_epochs     |-> 0,      \* epochs trained in aggressive mode
     eval            |-> NoEval, \* the last evaluation
     ceiling_hit     |-> FALSE,  \* line 546 ran in the last training step
     checkpoint      |-> NoCheckpoint, \* the last checkpoint of the inner loop
     raised_at       |-> 0]      \* the line that raised, once pc = "error"

\* lm_VAE.__init__, and the harness before its first call
InitTrain(HP, NB, NV, VM) ==
    /\ hparams \in HP
    /\ num_train_batches \in NB
    /\ num_val_batches \in NV
    /\ val_mid_epoch \in VM
    /\ current_epoch = 0
    /\ batch_idx = 0
    /\ val_idx = 0
    /\ aggressive = hparams.aggressive
    /\ mi_patience = hparams.aggressive_patience
    /\ stable_mi = FALSE
    /\ mi_prev = <<0, 1>>
    /\ mi_curr = 0
    /\ val_batches = 1
    /\ kl_weight = hparams.kl_weight_start
    /\ pc = "idle"
    /\ i = 0
    /\ burn_num_words = 0
    /\ burn_pre_loss = BurnPreLossInit
    /\ burn_cur_loss = <<0, 1>>
    /\ step_log = <<>>
    /\ hist = HistInit

(***************************************************************************)
(* training_step, lines 532-546: the controller.                           *)
(***************************************************************************)
\* line 533
NormalizedMI(sum, n) == Rat(sum, n)

\* line 534 with <= for <
MINotImproved_Leq(aggr, cur, prev) == (~aggr) \/ ~RatLess(prev, cur)

\* line 534
MINotImproved(aggr, cur, prev) == (~aggr) \/ RatLess(cur, prev)

\* lines 539-540 with the flag recomputed from the patience left
AfterPatience_Rearm(aggr, patience) == patience > 0

\* lines 539-540
AfterPatience(aggr, patience) == IF patience <= 0 THEN FALSE ELSE aggr

\* line 545 without the -1
CeilingReached_Strict(epoch, ceiling) == epoch > ceiling

\* line 545
CeilingReached(epoch, ceiling) == epoch > ceiling - 1

\* lines 545-546
AfterCeiling(aggr, epoch, ceiling) ==
    IF CeilingReached(epoch, ceiling) THEN FALSE ELSE aggr

\* lines 555-560: where the step goes after the controller
AfterController(aggr, inner_iter) ==
    IF aggr /\ inner_iter >= 1 THEN "inner" ELSE "joint"

BeginTrainingStep ==
    /\ pc = "idle"
    /\ batch_idx < num_train_batches
    /\ IF batch_idx = 0 /\ val_batches = 0
       THEN \* line 533: ZeroDivisionError
            /\ pc' = "error"
            /\ step_log' = <<>>
            /\ hist' = [hist EXCEPT !.raised_at = 533]
            /\ UNCHANGED <<aggressive, mi_patience, stable_mi, mi_prev, mi_curr,
                           val_batches, i, burn_num_words, burn_pre_loss,
                           burn_cur_loss>>
       ELSE LET isEval  == batch_idx = 0
                cur     == NormalizedMI(mi_curr, val_batches)
                dec     == isEval /\ MINotImproved(aggressive, cur, mi_prev)
                pat     == IF dec THEN mi_patience - 1 ELSE mi_patience
                aggr1   == IF isEval THEN AfterPatience(aggressive, pat)
                                     ELSE aggressive
                aggr2   == AfterCeiling(aggr1, current_epoch,
                                        hparams.max_aggressive_epochs)
                lower   == RatLess(cur, mi_prev)
                higher  == RatLess(mi_prev, cur)
            IN  /\ mi_patience' = pat
                /\ stable_mi' = (stable_mi \/ dec)
                /\ mi_prev' = IF isEval THEN cur ELSE mi_prev
                /\ mi_curr' = IF isEval THEN 0 ELSE mi_curr
                /\ val_batches' = IF isEval THEN 0 ELSE val_batches
                /\ aggressive' = aggr2
                /\ pc' = AfterController(aggr2, hparams.inner_iter)
                /\ i' = 0
                /\ burn_num_words' = 0
                /\ burn_pre_loss' = BurnPreLossInit
                /\ burn_cur_loss' = <<0, 1>>
                /\ step_log' = <<>>
                /\ hist' =
                     IF isEval
                     THEN [hist EXCEPT
                            !.val_sum = 0,
                            !.val_n = 0,
                            !.evals = @ + 1,
                            !.decreases = IF lower THEN @ + 1 ELSE @,
                            !.never_improved = @ /\ (hist.evals = 0 \/ ~higher),
                            !.aggr_epochs = IF aggr2 THEN @ + 1 ELSE @,
                            !.eval = [done            |-> TRUE,
                                      mi              |-> cur,
                                      prev            |-> mi_prev,
                                      sum             |-> hist.val_sum,
                                      n               |-> hist.val_n,
                                      was_aggressive  |-> aggressive,
                                      patience_before |-> mi_patience,
                                      patience_after  |-> pat],
                            !.ceiling_hit =
                                CeilingReached(current_epoch,
                                               hparams.max_aggressive_epochs)]
                     ELSE [hist EXCEPT
                            !.ceiling_hit =
                                CeilingReached(current_epoch,
                                               hparams.max_aggressive_epochs)]
    /\ UNCHANGED <<hparams, num_train_batches, num_val_batches, val_mid_epoch, current_epoch,
                   batch_idx, val_idx, kl_weight>>
    /\ UNCHANGED <<decVars, apiVars>>

(***************************************************************************)
(* training_step, lines 560-581: one iteration of the aggressive loop.     *)
(***************************************************************************)
\* line 575: the divisor of the checkpoint test
CheckpointEvery(inner_iter) == inner_iter \div 10

\* the test with <= in place of <
FailedToDecrease_Leq(pre, cur) == ~RatLess(cur, pre)

\* line 577
FailedToDecrease(pre, cur) == RatLess(pre, cur)

\* line 572
BatchWords == (SentsLen - 1) * BatchSize

InnerIteration(loss) ==
    /\ pc = "inner"
    /\ LET n     == i + 1
           words == burn_num_words + BatchWords
           sum   == Rat(burn_cur_loss[1] + loss, 1)
           every == CheckpointEvery(hparams.inner_iter)
           avg   == Rat(sum[1], words)
           log   == step_log \o <<[op |-> "inner_forward", kl |-> kl_weight],
                                  [op |-> "encoder_step", kl |-> kl_weight]>>
       IN  /\ i' = n
           /\ step_log' = log
           /\ hist' = [hist EXCEPT
                  !.raised_at = IF every = 0 THEN 575 ELSE @,
                  !.checkpoint =
                      IF every = 0 \/ n % every # 0 THEN @
                      ELSE [at     |-> n,
                            avg    |-> avg,
                            before |-> IF n = every THEN <<0, 0>> ELSE @.avg,
                            prev   |-> burn_pre_loss,
                            broke  |-> FailedToDecrease(burn_pre_loss, avg)]]
           /\ IF every = 0
              THEN \* line 575: ZeroDivisionError
                   /\ pc' = "error"
                   /\ burn_num_words' = words
                   /\ burn_cur_loss' = sum
                   /\ UNCHANGED burn_pre_loss
              ELSE IF n % every = 0
              THEN IF FailedToDecrease(burn_pre_loss, avg)
                   THEN \* line 579: break
                        /\ pc' = "joint"
                        /\ burn_num_words' = words
                        /\ burn_cur_loss' = avg
                        /\ UNCHANGED burn_pre_loss
                   ELSE /\ pc' = IF n = hparams.inner_iter THEN "joint" ELSE "inner"
                        /\ burn_pre_loss' = avg
                        /\ burn_cur_loss' = <<0, 1>>
                        /\ burn_num_words' = 0
              ELSE /\ pc' = IF n = hparams.inner_iter THEN "joint" ELSE "inner"
                   /\ burn_num_words' = words
                   /\ burn_cur_loss' = sum
                   /\ UNCHANGED burn_pre_loss
    /\ UNCHANGED <<hparams, num_train_batches, num_val_batches, val_mid_epoch, current_epoch,
                   batch_idx, val_idx, aggressive, mi_patience, stable_mi,
                   mi_prev, mi_curr, val_batches, kl_weight>>
    /\ UNCHANGED <<decVars, apiVars>>

(***************************************************************************)
(* training_step, lines 583-612: the joint step.                           *)
(***************************************************************************)
\* line 603 without the cap
Anneal_NoCap(kl, rate) == FloatAdd(kl, rate)

\* line 603
Anneal(kl, rate) == FloatMin(FxOne, FloatAdd(kl, rate))

\* lines 595-601: the optimizers stepped at the joint step, in order
JointOptimizerSteps(aggr, kl) ==
    IF ~aggr
    THEN <<[op |-> "encoder_step", kl |-> kl], [op |-> "decoder_step", kl |-> kl]>>
    ELSE <<[op |-> "decoder_step", kl |-> kl]>>

\* line 603 applied a second time in the step
KlAfterJointStep_Twice(kl, rate) == Anneal(Anneal(kl, rate), rate)

\* line 603, as training_step applies it: once, after the optimizers
KlAfterJointStep(kl, rate) == Anneal(kl, rate)

JointStep ==
    /\ pc = "joint"
    /\ step_log' = step_log \o <<[op |-> "joint_forward", kl |-> kl_weight]>>
                            \o JointOptimizerSteps(aggressive, kl_weight)
    /\ kl_weight' = KlAfterJointStep(kl_weight, hparams.anneal_rate)
    /\ pc' = "idle"
    /\ batch_idx' = batch_idx + 1
    /\ hist' = [hist EXCEPT !.outer_steps = @ + 1, !.checkpoint = NoCheckpoint]
    /\ UNCHANGED <<hparams, num_train_batches, num_val_batches, val_mid_epoch, current_epoch,
                   val_idx, aggressive, mi_patience, stable_mi, mi_prev, mi_curr,
                   val_batches, i, burn_num_words, burn_pre_loss, burn_cur_loss>>
    /\ UNCHANGED <<decVars, apiVars>>

(***************************************************************************)
(* validation_step, lines 614-638.                                         *)
(***************************************************************************)
ValidationStep(mi) ==
    /\ pc = "idle"
    /\ val_idx < num_val_batches
    /\ val_mid_epoch \/ batch_idx = 0
    /\ mi_curr' = mi_curr + mi
    /\ val_batches' = val_batches + 1
    /\ val_idx' = val_idx + 1
    /\ hist' = [hist EXCEPT !.val_sum = @ + mi, !.val_n = @ + 1]
    /\ UNCHANGED <<hparams, num_train_batches, num_val_batches, val_mid_epoch, current_epoch,
                   batch_idx, aggressive, mi_patience, stable_mi, mi_prev,
                   kl_weight, pc, i, burn_num_words, burn_pre_loss,
                   burn_cur_loss, step_log>>
    /\ UNCHANGED <<decVars, apiVars>>

\* the harness moves to the next epoch
EpochEnd ==
    /\ pc = "idle"
    /\ batch_idx = num_train_batches
    /\ current_epoch < MaxEpoch
    /\ current_epoch' = current_epoch + 1
    /\ batch_idx' = 0
    /\ val_idx' = 0
    /\ UNCHANGED <<hparams, num_train_batches, num_val_batches, val_mid_epoch,
                   aggressive,
                   mi_patience, stable_mi, mi_prev, mi_curr, val_batches,
                   kl_weight, pc, i, burn_num_words, burn_pre_loss,
                   burn_cur_loss, step_log, hist>>
    /\ UNCHANGED <<decVars, apiVars>>

NextTrain ==
    \/ BeginTrainingStep
    \/ \E loss \in LossVals : InnerIteration(loss)
    \/ JointStep
    \/ \E mi \in MIVals : ValidationStep(mi)
    \/ EpochEnd

(***************************************************************************)
(* LSTM_Decoder: the vocabulary and the network.                           *)
(***************************************************************************)
\* len(self.vocab); token ids are 0..VocabSize-1
VocabSize == 3
\* the largest max_length and beam width K of a session
MaxLen == 3
MaxK == 2

Vocab == 0..(VocabSize - 1)

\* self.vocab["<s>"], self.vocab["</s>"]
SosId == 0
EosId == 1

\* self.vocab.itos
Itos(w) == <<"<s>", "</s>", "a", "b", "c", "d">>[w + 1]

\* The decoder network (embed, lstm, linear_out) is a deterministic function of
\* the latent code and of the tokens fed to it so far.  Its output for one
\* input is a vector of scores (log-probabilities, as integers) that ranks the
\* tokens strictly; ScoreVec(f) is the output that ranks token f first and the
\* others after it in the order of their ids, cyclically.
ScoreVec(f) == [w \in Vocab |-> IF w = f THEN -1 ELSE -(2 + ((w - f - 1) % VocabSize))]

\* the outputs of the model: the start token, the end token or a word first
ScoreVecs == {ScoreVec(SosId), ScoreVec(EosId), ScoreVec(EosId + 1)}

\* The network run on the inputs `keys` (<<sentence, tokens fed>>): outputs
\* already computed are the same again, the others are any outputs.
RunNetwork(keys, out) ==
    /\ out \in [keys -> ScoreVecs]
    /\ \A k \in keys \cap DOMAIN logits : out[k] = logits[k]

Remember(keys, out) ==
    [k \in (DOMAIN logits) \cup keys |->
        IF k \in DOMAIN logits THEN logits[k] ELSE out[k]]

RECURSIVE Join(_)
\* ' '.join(sent)
Join(sent) ==
    IF sent = <<>> THEN ""
    ELSE IF Len(sent) = 1 THEN sent[1]
    ELSE sent[1] \o " " \o Join(Tail(sent))

Reverse(sq) == [k \in 1..Len(sq) |-> sq[Len(sq) + 1 - k]]

\* lm_VAE and the harness while the decoder is used: no training runs
DecodeState(CALLS, at) ==
    /\ call \in CALLS
    /\ logits = <<>>
    /\ dpc = at
    /\ idx = 0
    /\ t = 0
    /\ nodes = <<>>
    /\ live_hypotheses = <<>>
    /\ completed_hypotheses = <<>>
    /\ beam_decoded_batch = <<>>
    /\ beam_result = <<>>
    /\ length_c = 1
    /\ mask = <<>>
    /\ decoder_input = <<>>
    /\ decoder_hidden = <<>>
    /\ greedy_decoded_batch = <<>>
    /\ greedy_result = <<>>

\* a session that calls beam_search_decode and then greedy_decode
DecodeInit(CALLS) == DecodeState(CALLS, "beam_sentence")

\* no decoding session
NoCall == [K |-> 1, max_length |-> 0, batch_size |-> 0, strategy |-> "none"]

DecodeIdle == DecodeState({NoCall}, "idle")

\* no call of decode or latent_sweep
ApiIdle ==
    /\ api_call = [method |-> "none"]
    /\ api_pc = "idle"
    /\ z_size = <<>>
    /\ encoder_runs = 0
    /\ raised_at = 0
    /\ returned = <<>>

(***************************************************************************)
(* beam_search_decode, lines 220-329.                                      *)
(***************************************************************************)
\* BeamSearchNode(hidden, prevNode, wordid, logp, length), lines 245 and 288;
\* the hidden state is the sequence of tokens the network was fed to reach it
BeamSearchNode(h, prevNode, wordid, logp, leng) ==
    [h |-> h, prevNode |-> prevNode, wordid |-> wordid, logp |-> logp,
     leng |-> leng]

\* the loop condition without the step limit
BeamLoopCondition_NoLimit(completed, K, steps, max_length) ==
    Len(completed) < K

\* line 251
BeamLoopCondition(completed, K, steps, max_length) ==
    Len(completed) < K /\ steps < max_length

\* lines 242-250
BeamSentence ==
    /\ dpc = "beam_sentence"
    /\ idx < call.batch_size
    /\ nodes' = <<BeamSearchNode(<<>>, 0, SosId, 0, 1)>>
    /\ live_hypotheses' = <<1>>
    /\ completed_hypotheses' = <<>>
    /\ t' = 0
    /\ dpc' = IF BeamLoopCondition(<<>>, call.K, 0, call.max_length)
              THEN "beam_loop" ELSE "beam_select"
    /\ UNCHANGED <<call, logits, idx, beam_decoded_batch, beam_result, length_c,
                   mask, decoder_input, decoder_hidden, greedy_decoded_batch,
                   greedy_result>>
    /\ UNCHANGED <<trainVars, apiVars>>

\* the input that expanding node n feeds to the network
FedBy(n) == Append(nodes[n].h, nodes[n].wordid)

\* lines 272-278: decoder_output, flattened: index live_id * len(vocab) + word_id
FlatScore(out, flat) ==
    LET live_id == flat \div VocabSize
        word_id == flat % VocabSize
        n       == live_hypotheses[live_id + 1]
    IN  nodes[n].logp + out[<<idx, FedBy(n)>>][word_id]

RECURSIVE TopK(_, _, _)
\* line 281: torch.topk(decoder_output, k) over the flat indexes `among`: the
\* possible results, k indexes of the largest entries, largest first; which of
\* several equal entries comes first is not specified
TopK(out, k, among) ==
    IF k = 0 THEN {<<>>}
    ELSE LET largest == {a \in among :
                            \A b \in among : FlatScore(out, b) <= FlatScore(out, a)}
         IN  UNION {{<<a>> \o rest : rest \in TopK(out, k - 1, among \ {a})} :
                        a \in largest}

\* lines 286-295: the node of the j-th selected candidate
NewNode(out, indexes, j) ==
    LET live_id == indexes[j] \div VocabSize
        word_id == indexes[j] % VocabSize
        n       == live_hypotheses[live_id + 1]
    IN  BeamSearchNode(FedBy(n), n, word_id, FlatScore(out, indexes[j]), t + 1)

\* a test that finalizes nothing
IsCompleted_Never(node) == FALSE

\* line 292
IsCompleted(node) == node.wordid = EosId

\* the number of candidates without the completed ones taken off
Candidates_All(K, completed) == K

\* line 281: the number of candidates topk selects
Candidates(K, completed) == K - Len(completed)

\* lines 252-300: one pass of the while loop
BeamExpand ==
    /\ dpc = "beam_loop"
    /\ LET keys == {<<idx, FedBy(live_hypotheses[l])>> :
                        l \in 1..Len(live_hypotheses)}
           k    == Candidates(call.K, completed_hypotheses)
           base == Len(nodes)
       IN  IF k > Len(live_hypotheses) * VocabSize
           THEN \* line 281: RuntimeError, k is out of range
                /\ dpc' = "error"
                /\ UNCHANGED <<logits, t, nodes, live_hypotheses,
                               completed_hypotheses>>
           ELSE \E out \in [keys -> ScoreVecs] :
                /\ RunNetwork(keys, out)
                /\ \E indexes \in TopK(out, k, 0..(Len(live_hypotheses) * VocabSize - 1)) :
                   LET new  == [j \in 1..k |-> NewNode(out, indexes, j)]
                       done == SelectSeq([j \in 1..k |-> base + j],
                                         LAMBDA n : IsCompleted(new[n - base]))
                       live == SelectSeq([j \in 1..k |-> base + j],
                                         LAMBDA n : ~IsCompleted(new[n - base]))
                       comp == completed_hypotheses \o done
                   IN  /\ logits' = Remember(keys, out)
                       /\ t' = t + 1
                       /\ nodes' = nodes \o new
                       /\ completed_hypotheses' = comp
                       /\ live_hypotheses' = live
                       /\ dpc' = IF BeamLoopCondition(comp, call.K, t + 1,
                                                      call.max_length)
                                 THEN "beam_loop" ELSE "beam_select"
    /\ UNCHANGED <<call, idx, beam_decoded_batch, beam_result, length_c, mask,
                   decoder_input, decoder_hidden, greedy_decoded_batch,
                   greedy_result>>
    /\ UNCHANGED <<trainVars, apiVars>>

\* the first hypothesis of the list, without the sort
BestHypothesis_First(hyps) == hyps[1]

\* line 306: sorted(hyps, key=logp, reverse=True)[0]; the sort is stable, so
\* the first of the hypotheses with the highest logp
BestHypothesis(hyps) ==
    LET best == CHOOSE k \in 1..Len(hyps) :
                    /\ \A j \in 1..Len(hyps) : nodes[hyps[j]].logp <= nodes[hyps[k]].logp
                    /\ \A j \in 1..(k - 1) : nodes[hyps[j]].logp < nodes[hyps[k]].logp
    IN  hyps[best]

RECURSIVE BackTrace(_, _)
\* lines 310-316: from node n, with the utterance collected so far
BackTrace(n, utterance) ==
    IF nodes[n].prevNode = 0 THEN utterance
    ELSE LET prev  == nodes[n].prevNode
             token == Itos(nodes[prev].wordid)
         IN  IF token # "<s>"
             THEN BackTrace(prev, Append(utterance, token))
             ELSE utterance

\* lines 307-318
Utterance(n) == Reverse(BackTrace(n, <<Itos(nodes[n].wordid)>>))

\* lines 302-325
BeamSelect ==
    /\ dpc = "beam_select"
    /\ LET hyps == completed_hypotheses \o live_hypotheses
       IN  /\ completed_hypotheses' = hyps
           /\ beam_decoded_batch' =
                  Append(beam_decoded_batch, Utterance(BestHypothesis(hyps)))
    /\ idx' = idx + 1
    /\ dpc' = "beam_sentence"
    /\ UNCHANGED <<call, logits, t, nodes, live_hypotheses, beam_result,
                   length_c, mask, decoder_input, decoder_hidden,
                   greedy_decoded_batch, greedy_result>>
    /\ UNCHANGED <<trainVars, apiVars>>

\* lines 327-329
BeamReturn ==
    /\ dpc = "beam_sentence"
    /\ idx = call.batch_size
    /\ beam_result' = [k \in 1..Len(beam_decoded_batch) |->
                           Join(beam_decoded_batch[k])]
    /\ dpc' = IF call.strategy = "both" THEN "greedy_start" ELSE "done"
    /\ UNCHANGED <<call, logits, idx, t, nodes, live_hypotheses,
                   completed_hypotheses, beam_decoded_batch, length_c, mask,
                   decoder_input, decoder_hidden, greedy_decoded_batch,
                   greedy_result>>
    /\ UNCHANGED <<trainVars, apiVars>>

(***************************************************************************)
(* greedy_decode, lines 331-381.                                           *)
(***************************************************************************)
\* sum of the mask
MaskSum(m) == Cardinality({e \in DOMAIN m : m[e] = 1})

\* line 354
GreedyLoopCondition(m, len, max_length) == MaskSum(m) # 0 /\ len < max_length

\* line 353
GreedyFirstLength == 1

\* line 368: torch.argmax, the first index of the largest score
ArgMax(scores) ==
    CHOOSE w \in Vocab :
        /\ \A v \in Vocab : scores[v] <= scores[w]
        /\ \A v \in Vocab : v < w => scores[v] < scores[w]

\* the loop a session enters after lines 340-353 (greedy_decode) or the same
\* statements at lines 392-405 (sample_decode)
MaskedLoop == IF call.strategy = "sample" THEN "sample_loop" ELSE "greedy_loop"

\* lines 340-353
GreedyStart ==
    /\ dpc = "greedy_start"
    /\ greedy_decoded_batch' = [e \in 1..call.batch_size |-> <<>>]
    /\ decoder_hidden' = [e \in 1..call.batch_size |-> <<>>]
    /\ decoder_input' = [e \in 1..call.batch_size |-> SosId]
    /\ mask' = [e \in 1..call.batch_size |-> 1]
    /\ length_c' = GreedyFirstLength
    /\ dpc' = IF GreedyLoopCondition([e \in 1..call.batch_size |-> 1],
                                     GreedyFirstLength, call.max_length)
              THEN MaskedLoop ELSE "greedy_return"
    /\ UNCHANGED <<call, logits, idx, t, nodes, live_hypotheses,
                   completed_hypotheses, beam_decoded_batch, beam_result,
                   greedy_result>>
    /\ UNCHANGED <<trainVars, apiVars>>

\* the append without the mask test
GreedyAppend_Always(sent, m, token) == Append(sent, token)

\* lines 373-375: the token is appended while the element's mask is set
GreedyAppend(sent, m, token) == IF m = 1 THEN Append(sent, token) ELSE sent

\* line 377
GreedyMask(m, word) == IF word # EosId THEN m ELSE 0

\* lines 370-377 (and 423-430): the chosen tokens are fed back, appended for
\* the elements whose mask is set, and the mask is updated
MaskedAppend(keys, out, fed, max_index) ==
    LET elems == 1..call.batch_size
        m     == [e \in elems |-> GreedyMask(mask[e], max_index[e])]
    IN  /\ logits' = Remember(keys, out)
        /\ decoder_hidden' = fed
        /\ decoder_input' = max_index
        /\ length_c' = length_c + 1
        /\ greedy_decoded_batch' =
               [e \in elems |->
                   GreedyAppend(greedy_decoded_batch[e], mask[e],
                                Itos(max_index[e]))]
        /\ mask' = m
        /\ dpc' = IF GreedyLoopCondition(m, length_c + 1, call.max_length)
                  THEN dpc ELSE "greedy_return"

\* lines 355-377: one pass of the while loop
GreedyStep ==
    /\ dpc = "greedy_loop"
    /\ LET elems == 1..call.batch_size
           fed   == [e \in elems |-> Append(decoder_hidden[e], decoder_input[e])]
           keys  == {<<e - 1, fed[e]>> : e \in elems}
       IN  \E out \in [keys -> ScoreVecs] :
           /\ RunNetwork(keys, out)
           /\ MaskedAppend(keys, out, fed,
                           [e \in elems |-> ArgMax(out[<<e - 1, fed[e]>>])])
    /\ UNCHANGED <<call, idx, t, nodes, live_hypotheses, completed_hypotheses,
                   beam_decoded_batch, beam_result, greedy_result>>
    /\ UNCHANGED <<trainVars, apiVars>>

\* sample_decode, lines 407-430: one pass of the while loop; torch.multinomial
\* over the softmax draws any token
SampleStep ==
    /\ dpc = "sample_loop"
    /\ LET elems == 1..call.batch_size
           fed   == [e \in elems |-> Append(decoder_hidden[e], decoder_input[e])]
           keys  == {<<e - 1, fed[e]>> : e \in elems}
       IN  \E out \in [keys -> ScoreVecs] :
           /\ RunNetwork(keys, out)
           /\ \E sample_index \in [elems -> Vocab] :
                  MaskedAppend(keys, out, fed, sample_index)
    /\ UNCHANGED <<call, idx, t, nodes, live_hypotheses, completed_hypotheses,
                   beam_decoded_batch, beam_result, greedy_result>>
    /\ UNCHANGED <<trainVars, apiVars>>

\* lines 379-381
GreedyReturn ==
    /\ dpc = "greedy_return"
    /\ greedy_result' = [e \in 1..Len(greedy_decoded_batch) |->
                             Join(greedy_decoded_batch[e])]
    /\ dpc' = "done"
    /\ UNCHANGED <<call, logits, idx, t, nodes, live_hypotheses,
                   completed_hypotheses, beam_decoded_batch, beam_result,
                   length_c, mask, decoder_input, decoder_hidden,
                   greedy_decoded_batch>>
    /\ UNCHANGED <<trainVars, apiVars>>

NextDecode ==
    \/ BeamSentence
    \/ BeamExpand
    \/ BeamSelect
    \/ BeamReturn
    \/ GreedyStart
    \/ GreedyStep
    \/ GreedyReturn

(***************************************************************************)
(* lm_VAE.decode, lines 649-666, and lm_VAE.latent_sweep, lines 668-703.   *)
(***************************************************************************)
\* the largest batch of inputs, latent size and number of sweep points
MaxInputs == 2
MaxLatent == 2
MaxNum == 2
\* the max_length of the decoders in these calls (the methods leave it at the
\* decoders' default)
ApiMaxLength == 2

Strategies == {"beam_search", "greedy", "sample"}

\* the calls: decoding_strategy "None" is the argument left out, "bogus" a
\* name that is no strategy; configured is self.decoding_strategy (line 452)
ApiCalls ==
    [method            : {"decode", "latent_sweep"},
     decoding_strategy : {"None", "bogus"} \cup Strategies,
     configured        : {"greedy", "bogus"},
     N                 : 1..MaxInputs,
     nz                : 1..MaxLatent,
     num               : 1..MaxNum,
     beam_length       : 1..MaxK]

\* torch.Tensor.squeeze(): every dimension of size 1 is removed
Squeeze(size) == SelectSeq(size, LAMBDA d : d # 1)

\* the size of mean and log_std for a batch of n inputs (encoder.forward,
\* lines 46-56: the statistics of h_T)
EncoderSize(n, nz) == <<1, n, nz>>

\* sample_reparameterize: z has the size of mean
SampleSize(size) == size

\* lines 656-657 and 671-672
DecodingStrategy(c) ==
    IF c.decoding_strategy = "None" THEN c.configured ELSE c.decoding_strategy

\* lines 652-654 of decode; lines 674-690 of latent_sweep
ApiEncode ==
    /\ api_pc = "called"
    /\ encoder_runs' = encoder_runs + 1
    /\ IF api_call.method = "decode"
       THEN /\ z_size' = Squeeze(SampleSize(EncoderSize(api_call.N, api_call.nz)))
            /\ api_pc' = "encoded"
            /\ UNCHANGED raised_at
       ELSE LET z_init == Squeeze(SampleSize(EncoderSize(1, api_call.nz)))
            IN  IF z_init = <<>>
                THEN \* line 686: z_adj[zi] on a 0-dimensional tensor, IndexError
                     /\ api_pc' = "error"
                     /\ raised_at' = 686
                     /\ UNCHANGED z_size
                ELSE \* line 690: torch.stack of num codes
                     /\ z_size' = <<api_call.num>> \o z_init
                     /\ api_pc' = "encoded"
                     /\ UNCHANGED raised_at
    /\ UNCHANGED <<api_call, returned>>
    /\ UNCHANGED <<trainVars, decVars>>

\* the line of `batch_size, nz = z.size()` in the decoder of a strategy
UnpackLine(strategy) ==
    IF strategy = "beam_search" THEN 232
    ELSE IF strategy = "greedy" THEN 340 ELSE 392

\* lines 659-664 and 692-697, up to the decoder's first statement
ApiDispatch ==
    /\ api_pc = "encoded"
    /\ LET strategy == DecodingStrategy(api_call)
       IN  IF strategy \notin Strategies
           THEN \* no branch is taken: text_sample is unbound at line 666
                \* (decode) or 700 (latent_sweep), UnboundLocalError
                /\ api_pc' = "error"
                /\ raised_at' = IF api_call.method = "decode" THEN 666 ELSE 700
                /\ UNCHANGED <<call, dpc>>
           ELSE IF Len(z_size) # 2
           THEN \* batch_size, nz = z.size(): ValueError
                /\ api_pc' = "error"
                /\ raised_at' = UnpackLine(strategy)
                /\ UNCHANGED <<call, dpc>>
           ELSE /\ call' = [K |-> api_call.beam_length,
                            max_length |-> ApiMaxLength,
                            batch_size |-> z_size[1],
                            strategy |-> strategy]
                /\ dpc' = IF strategy = "beam_search"
                          THEN "beam_sentence" ELSE "greedy_start"
                /\ api_pc' = "decoding"
                /\ UNCHANGED raised_at
    /\ UNCHANGED <<api_call, z_size, encoder_runs, returned>>
    /\ UNCHANGED <<logits, idx, t, nodes, live_hypotheses, completed_hypotheses,
                   beam_decoded_batch, beam_result, length_c, mask,
                   decoder_input, decoder_hidden, greedy_decoded_batch,
                   greedy_result>>
    /\ UNCHANGED trainVars

\* what the decoder returned
TextSample == IF call.strategy = "beam_search" THEN beam_result ELSE greedy_result

\* line 666 of decode; lines 699-703 of latent_sweep, the n-th offset standing
\* for its text '%+4.2f' % vals[n]
ApiReturn ==
    /\ api_pc = "decoding"
    /\ dpc \in {"done", "error"}
    /\ IF dpc = "error"
       THEN /\ api_pc' = "error"
            /\ raised_at' = 281
            /\ UNCHANGED returned
       ELSE /\ api_pc' = "returned"
            /\ returned' = IF api_call.method = "decode" THEN TextSample
                           ELSE [n \in 1..Len(TextSample) |-> <<n, TextSample[n]>>]
            /\ UNCHANGED raised_at
    /\ UNCHANGED <<api_call, z_size, encoder_runs>>
    /\ UNCHANGED <<trainVars, decVars>>

NextApi ==
    \/ ApiEncode
    \/ ApiDispatch
    \/ ApiReturn
    \/ BeamSentence
    \/ BeamExpand
    \/ BeamSelect
    \/ BeamReturn
    \/ GreedyStart
    \/ GreedyStep
    \/ SampleStep
    \/ GreedyReturn

(***************************************************************************)
(* Specifications.                                                         *)
(***************************************************************************)
\* the configurations of the controller: every patience, ceiling and start mode
ControllerHParams ==
    [aggressive            : BOOLEAN,
     aggressive_patience   : 0..MaxPatience,
     max_aggressive_epochs : 0..MaxCeiling,
     inner_iter            : {10},
     kl_weight_start       : {FxZero},
     anneal_rate           : {FxHalf}]

vars == <<trainVars, decVars, apiVars>>

Init ==
    /\ InitTrain(ControllerHParams, 1..MaxBatches, 0..MaxValBatches, {FALSE})
    /\ DecodeIdle
    /\ ApiIdle

Next == NextTrain

Spec == Init /\ [][Next]_vars

\* the configurations of one training step: every start mode, inner_iter below
\* and from 10, KL weights from 0 to above 1, over enough batches to anneal
StepHParams ==
    [aggressive            : BOOLEAN,
     aggressive_patience   : {1},
     max_aggressive_epochs : {1},
     inner_iter            : {5, 10, 20},
     kl_weight_start       : {FxZero, FxHalf, FxOneAndHalf},
     anneal_rate           : {FxZero, FxTenth, FxQuarter}]

InitAnneal ==
    /\ InitTrain(StepHParams, {2 * MaxBatches}, {1}, {TRUE})
    /\ DecodeIdle
    /\ ApiIdle

SpecAnneal == InitAnneal /\ [][Next]_vars

\* decoding sessions: every beam width and max_length for one latent code,
\* beam width 1 for a batch of two, and a beam as wide as the vocabulary and
\* wider for one and two steps
DecodeCalls ==
    [K : 1..MaxK, max_length : 1..MaxLen, batch_size : {1}, strategy : {"both"}]
        \cup [K : {1}, max_length : 1..MaxLen, batch_size : {2}, strategy : {"both"}]
        \cup [K : {VocabSize, VocabSize + 1}, max_length : 1..2, batch_size : {1},
              strategy : {"both"}]

\* an lm_VAE that is not being trained
IdleHParams ==
    [aggressive            : {FALSE},
     aggressive_patience   : {0},
     max_aggressive_epochs : {0},
     inner_iter            : {10},
     kl_weight_start       : {FxOne},
     anneal_rate           : {FxZero}]

InitDecode ==
    /\ InitTrain(IdleHParams, {1}, {0}, {FALSE})
    /\ DecodeInit(DecodeCalls)
    /\ ApiIdle

SpecDecode == InitDecode /\ [][NextDecode]_vars

\* one call of decode or latent_sweep on a trained model
InitApi ==
    /\ InitTrain(IdleHParams, {1}, {0}, {FALSE})
    /\ DecodeIdle
    /\ api_call \in ApiCalls
    /\ api_pc = "called"
    /\ z_size = <<>>
    /\ encoder_runs = 0
    /\ raised_at = 0
    /\ returned = <<>>

SpecApi == InitApi /\ [][NextApi]_vars

(***************************************************************************)
(* The aggressive-training controller.                                     *)
(***************************************************************************)
\* the configuration starts in aggressive mode with patience P >= 1 and the
\* epoch ceiling has not been reached (under either reading of the ceiling)
AggressiveStart ==
    /\ hparams.aggressive
    /\ hparams.aggressive_patience >= 1
    /\ current_epoch < hparams.max_aggressive_epochs

\* the last BeginTrainingStep ran in the current epoch
StepRan == pc \in {"inner", "joint"} \/ batch_idx >= 1

\* C1: once the aggressive flag is false, no step of the program makes it true
\* again, whatever the later validation batches report.
C1_AggressiveNeverReturns == [][(~aggressive) => (~aggressive')]_vars

\* C1's case: the flag was switched off, and a later evaluation in standard
\* mode saw the MI improve
C1_Witness ==
    /\ hparams.aggressive
    /\ ~aggressive
    /\ hist.eval.done
    /\ ~hist.eval.was_aggressive
    /\ RatLess(hist.eval.prev, hist.eval.mi)

\* C2 as claimed: when the MI never improved, exactly P epochs are trained in
\* aggressive mode before the controller switches to standard mode.
C2_ExactlyPatienceEpochs ==
    (AggressiveStart /\ hist.never_improved) =>
        /\ aggressive => hist.aggr_epochs <= hparams.aggressive_patience
        /\ (~aggressive) => hist.aggr_epochs = hparams.aggressive_patience

\* C2 as amended: the controller switches to standard mode at exactly the P-th
\* epoch-start evaluation whose normalized MI is strictly lower than mi_prev;
\* evaluations with an equal or higher MI do not count.
C2_SwitchAtPthDecrease ==
    AggressiveStart =>
        /\ aggressive <=> hist.decreases < hparams.aggressive_patience
        /\ aggressive => mi_patience = hparams.aggressive_patience - hist.decreases

\* C2's case: patience 2 was used up by two strict decreases, with an
\* evaluation in between that did not count
C2_Witness ==
    /\ AggressiveStart
    /\ hparams.aggressive_patience = 2
    /\ ~aggressive
    /\ hist.decreases = 2
    /\ hist.evals = 3

\* C3 as claimed: an evaluation decrements the patience exactly when the
\* controller is in aggressive mode and the MI is strictly lower than mi_prev.
C3_DecrementOnlyWhenAggressiveAndLower ==
    hist.eval.done =>
        hist.eval.patience_after =
            IF hist.eval.was_aggressive /\ RatLess(hist.eval.mi, hist.eval.prev)
            THEN hist.eval.patience_before - 1
            ELSE hist.eval.patience_before

\* what the code does instead: in standard mode every evaluation decrements
C3_CodeDecrement ==
    hist.eval.done =>
        hist.eval.patience_after =
            IF (~hist.eval.was_aggressive) \/ RatLess(hist.eval.mi, hist.eval.prev)
            THEN hist.eval.patience_before - 1
            ELSE hist.eval.patience_before

\* C4 as claimed: the ceiling rule forces standard mode exactly in the steps
\* whose epoch index is strictly greater than max_aggressive_epochs.
C4_CeilingStrictlyAbove ==
    StepRan =>
        (hist.ceiling_hit <=> current_epoch > hparams.max_aggressive_epochs)

\* C4 as amended: the ceiling rule forces standard mode, whatever patience is
\* left, exactly in the steps whose epoch index is greater than or equal to
\* max_aggressive_epochs; below it, an aggressive run with patience left stays
\* aggressive.
C4_CeilingAtOrAbove ==
    StepRan =>
        /\ hist.ceiling_hit <=> current_epoch >= hparams.max_aggressive_epochs
        /\ hist.ceiling_hit => ~aggressive
        /\ (hparams.aggressive /\ mi_patience > 0
              /\ current_epoch < hparams.max_aggressive_epochs) => aggressive

\* C4's case: a step of the epoch whose index equals the ceiling, forced to
\* standard mode with patience left
C4_Witness ==
    /\ StepRan
    /\ hparams.aggressive
    /\ hparams.max_aggressive_epochs >= 1
    /\ current_epoch = hparams.max_aggressive_epochs
    /\ mi_patience > 0
    /\ hist.ceiling_hit
    /\ ~aggressive

\* C5 as claimed: every evaluation, the first included, compares and stores
\* the sum of the MI of the validation batches since the previous evaluation
\* divided by their number, and leaves the accumulator and the counter at zero.
C5_NormalizedByBatchCount ==
    /\ (hist.eval.done /\ hist.eval.n > 0) =>
           /\ hist.eval.mi = Rat(hist.eval.sum, hist.eval.n)
           /\ (pc # "idle" /\ batch_idx = 0) => mi_prev = hist.eval.mi
    /\ (pc \in {"inner", "joint"} /\ batch_idx = 0) =>
           mi_curr = 0 /\ val_batches = 0

(***************************************************************************)
(* The KL weight and the optimizers of one training step.                  *)
(***************************************************************************)
RECURSIVE FxTimes(_, _)
\* n * x, exactly
FxTimes(n, x) == IF n = 0 THEN FxZero ELSE FxAdd(x, FxTimes(n - 1, x))

\* min(1.0, kl_weight_start + n * anneal_rate), exactly
ExactKl(n) ==
    LET x == FxAdd(hparams.kl_weight_start, FxTimes(n, hparams.anneal_rate))
    IN  IF FxLess(FxOne, x) THEN FxOne ELSE x

FxDist(x, y) == IF FxLess(x, y) THEN FxSub(y, x) ELSE FxSub(x, y)

\* 2^-53, the rounding error of one float operation below 2.0
Ulp == <<2^5, 0, 0>>

\* 0.9999999999999999 = 1 - 2^-53, the float below 1.0
FxBelowOne == FxSub(FxOne, Ulp)

StartAtMostOne == FxLeq(hparams.kl_weight_start, FxOne)

TenthFromZero ==
    hparams.kl_weight_start = FxZero /\ hparams.anneal_rate = FxTenth

\* every loss of the step so far was computed with the same kl_weight
OneKlPerStep == \A j, k \in DOMAIN step_log : step_log[j].kl = step_log[k].kl

\* C6: for kl_weight_start <= 1.0 (every modelled anneal_rate is >= 0),
\* kl_weight <= 1.0 in every state, and no step of the program decreases it.
C6_KlMonotoneAndCapped ==
    /\ [](StartAtMostOne => FxLeq(kl_weight, FxOne))
    /\ [][StartAtMostOne => FxLeq(kl_weight, kl_weight')]_vars

\* C6's case: the weight was raised until the cap held it at 1.0, with a
\* validation batch run in the middle of the epoch
C6_Witness ==
    /\ FxLess(hparams.kl_weight_start, FxOne)
    /\ hparams.anneal_rate = FxQuarter
    /\ kl_weight = FxOne
    /\ hist.outer_steps >= 3
    /\ val_idx = 1 /\ batch_idx >= 1 /\ batch_idx < num_train_batches

\* C7 as claimed: after n outer steps kl_weight equals
\* min(1.0, kl_weight_start + n * anneal_rate) (here: up to the rounding of n
\* float additions), every loss of a step uses one kl_weight, and from 0.0 with
\* rate 0.1 the weight equals 1.0 after exactly 10 steps and not before.
C7_ExactlyOneAfterTenSteps ==
    /\ OneKlPerStep
    /\ (StartAtMostOne /\ pc = "idle") =>
           FxLeq(FxDist(kl_weight, ExactKl(hist.outer_steps)),
                 FxTimes(hist.outer_steps, Ulp))
    /\ (TenthFromZero /\ pc = "idle") =>
           /\ hist.outer_steps < 10 => FxLess(kl_weight, FxOne)
           /\ hist.outer_steps >= 10 => kl_weight = FxOne

\* C7 as amended: kl_weight is annealed once per training step that runs to
\* its end, after the optimizers, whatever the number of inner iterations;
\* after n such steps it is the float that n additions of anneal_rate give,
\* within n * 2^-53 of min(1.0, kl_weight_start + n * anneal_rate); from 0.0
\* with rate 0.1 it is 0.9999999999999999 after 10 steps and 1.0 from the 11th.
C7_OneBelowAfterTenSteps ==
    /\ OneKlPerStep
    /\ (pc \in {"inner", "joint"}) =>
           \A j \in DOMAIN step_log : step_log[j].kl = kl_weight
    /\ (StartAtMostOne /\ pc = "idle") =>
           FxLeq(FxDist(kl_weight, ExactKl(hist.outer_steps)),
                 FxTimes(hist.outer_steps, Ulp))
    /\ (TenthFromZero /\ pc = "idle") =>
           /\ hist.outer_steps < 10 => FxLess(kl_weight, FxBelowOne)
           /\ hist.outer_steps = 10 => kl_weight = FxBelowOne
           /\ hist.outer_steps >= 11 => kl_weight = FxOne

\* C7's case: the 11th step from 0.0 with rate 0.1 has ended, and steps with
\* inner iterations were among them
C7_Witness ==
    /\ TenthFromZero
    /\ hparams.aggressive
    /\ hparams.inner_iter = 20
    /\ pc = "idle"
    /\ hist.outer_steps = 11
    /\ kl_weight = FxOne

\* the optimizer steps of the current training step, in order
OptimizerSteps == SelectSeq(step_log, LAMBDA e : e.op # "inner_forward")

CountOp(name) == Cardinality({j \in DOMAIN step_log : step_log[j].op = name})

\* a training step has ended: it returned, or it raised
StepReturned == pc = "idle" /\ batch_idx >= 1
StepRaised == pc = "error"

\* C8 as claimed: for every inner_iter >= 1 the aggressive loop makes at
\* least one and at most inner_iter encoder updates, raises no error and goes
\* on to the joint step.
C8_InnerLoopBoundedNoError ==
    hparams.inner_iter >= 1 =>
        /\ ~(StepRaised /\ hist.raised_at = 575)
        /\ (aggressive /\ (pc = "joint" \/ StepReturned)) =>
               /\ 1 <= i /\ i <= hparams.inner_iter
               /\ CountOp("inner_forward") = i

\* what the code does: C8 holds of every inner_iter from 10
C8_HoldsFromTen ==
    hparams.inner_iter >= 10 =>
        /\ ~(StepRaised /\ hist.raised_at = 575)
        /\ (aggressive /\ (pc = "joint" \/ StepReturned)) =>
               /\ 1 <= i /\ i <= hparams.inner_iter
               /\ CountOp("inner_forward") = i

\* the position of the joint forward pass in the log (0 before it)
JointAt ==
    IF \E j \in DOMAIN step_log : step_log[j].op = "joint_forward"
    THEN CHOOSE j \in DOMAIN step_log : step_log[j].op = "joint_forward"
    ELSE 0

\* the order of one step: standard mode makes no inner iteration and steps the
\* encoder at the joint step; aggressive mode steps the encoder only in the
\* inner loop, before the joint forward pass and the decoder step
StepOrder ==
    /\ (~aggressive) =>
           /\ CountOp("inner_forward") = 0
           /\ \A j \in DOMAIN step_log :
                  step_log[j].op = "encoder_step" => JointAt # 0 /\ j > JointAt
    /\ aggressive =>
           \A j \in DOMAIN step_log :
               step_log[j].op = "encoder_step" =>
                   /\ j > 1 /\ step_log[j - 1].op = "inner_forward"
                   /\ JointAt # 0 => j < JointAt
    /\ \A j \in DOMAIN step_log :
           step_log[j].op = "decoder_step" => JointAt # 0 /\ j > JointAt

\* C9 as claimed: every training step steps the decoder optimizer exactly
\* once; a standard step steps the encoder once, at the joint step; an
\* aggressive step steps the encoder only in the inner loop, before the joint
\* forward pass.
C9_OptimizerDiscipline ==
    /\ StepOrder
    /\ (StepReturned \/ StepRaised) =>
           /\ CountOp("decoder_step") = 1
           /\ (~aggressive) => CountOp("encoder_step") = 1
           /\ aggressive => CountOp("encoder_step") = CountOp("inner_forward")

\* what the code does: C9 holds of every training step that returns
C9_HoldsWhenStepReturns ==
    /\ StepOrder
    /\ StepReturned =>
           /\ CountOp("decoder_step") = 1
           /\ (~aggressive) => CountOp("encoder_step") = 1
           /\ aggressive => CountOp("encoder_step") = CountOp("inner_forward")

\* the inner loop has just made a checkpoint at step i
AtCheckpoint ==
    /\ pc \in {"inner", "joint"}
    /\ i > 0
    /\ CheckpointEvery(hparams.inner_iter) > 0
    /\ i % CheckpointEvery(hparams.inner_iter) = 0

\* the checkpoint compared the window just ended with the window before it, and
\* the loop stopped at the checkpoint's step or went on with the sums reset
ComparedAndReset ==
    LET c == hist.checkpoint
    IN  /\ c.at = i
        /\ c.before # <<0, 0>> => c.prev = c.before
        /\ c.broke => pc = "joint"
        /\ (~c.broke) => (burn_cur_loss = <<0, 1>> /\ burn_num_words = 0)

\* C16 as claimed: at every checkpoint the average loss per word of the window
\* just ended is compared with that of the window before; the loop breaks
\* whenever it is greater than or equal to it, and otherwise goes on with the
\* window sums reset.
C16_BreaksUnlessDecreased ==
    AtCheckpoint =>
        /\ ComparedAndReset
        /\ hist.checkpoint.broke <=>
               ~RatLess(hist.checkpoint.avg, hist.checkpoint.prev)

\* C16 as amended: the loop breaks whenever the average is strictly greater
\* than that of the window before, and otherwise (lower or equal) goes on with
\* the window sums reset.
C16_BreaksWhenIncreased ==
    AtCheckpoint =>
        /\ ComparedAndReset
        /\ hist.checkpoint.broke <=>
               RatLess(hist.checkpoint.prev, hist.checkpoint.avg)

\* C16's case: a window whose average equals that of the window before, after
\* which the loop goes on
C16_Witness ==
    /\ AtCheckpoint
    /\ pc = "inner"
    /\ hist.checkpoint.at = i
    /\ hist.checkpoint.before = hist.checkpoint.avg
    /\ ~hist.checkpoint.broke

\* C20 as claimed: the epoch-start evaluation completes without error for
\* every interleaving of training epochs and validation batches, also when no
\* validation batch has run since the previous evaluation.
C20_EvaluationNeverRaises == ~(pc = "error" /\ hist.raised_at = 533)

\* what the code does: the evaluation completes when the counter is not zero,
\* that is in the first evaluation and whenever a validation batch has run
\* since the previous one
C20_CompletesWithValidation ==
    (pc = "error" /\ hist.raised_at = 533) =>
        (val_batches = 0 /\ hist.val_n = 0 /\ hist.evals >= 1)

(***************************************************************************)
(* Decoding.                                                               *)
(***************************************************************************)
\* C10 as claimed: for the same latent code, network and max_length, beam
\* search with beam width 1 returns the same string as greedy decoding.
C10_BeamOneEqualsGreedy ==
    (dpc = "done" /\ call.K = 1) => beam_result = greedy_result

\* what the code does: the two agree on every latent code whose greedy
\* decoding emitted the end token and never chose the start token
C10_HoldsWhenEndedWithoutStartToken ==
    (dpc = "done" /\ call.K = 1) =>
        \A e \in 1..call.batch_size :
            (/\ mask[e] = 0
             /\ \A j \in DOMAIN greedy_decoded_batch[e] :
                    greedy_decoded_batch[e][j] # "<s>")
                => beam_result[e] = greedy_result[e]

\* the ids element e chose, one per pass of the greedy loop
GreedyPath(e) ==
    IF decoder_hidden[e] = <<>> THEN <<>>
    ELSE Append(Tail(decoder_hidden[e]), decoder_input[e])

RECURSIVE BeforeEnd(_)
\* the ids of a path before its first end token
BeforeEnd(path) ==
    IF path = <<>> \/ Head(path) = EosId THEN <<>>
    ELSE <<Head(path)>> \o BeforeEnd(Tail(path))

\* the ids of a path up to its first end token, the end token included
UpToEnd(path) ==
    LET before == BeforeEnd(path)
    IN  IF Len(before) < Len(path) THEN Append(before, EosId) ELSE before

Tokens(ids) == [j \in 1..Len(ids) |-> Itos(ids[j])]

\* C11 as claimed: greedy_decode returns one string per batch element, made of
\* the tokens the element chose before its end token: without the end token
\* and without any token chosen after it, whatever the other elements do.
C11_GreedyTokensBeforeEnd ==
    dpc = "done" =>
        /\ Len(greedy_result) = call.batch_size
        /\ \A e \in 1..call.batch_size :
               greedy_result[e] = Join(Tokens(BeforeEnd(GreedyPath(e))))

\* C11 as amended: one string per batch element, made of the tokens the element
\* chose up to and including its end token, and of no token chosen after it.
C11_GreedyTokensUpToEnd ==
    dpc = "done" =>
        /\ Len(greedy_result) = call.batch_size
        /\ \A e \in 1..call.batch_size :
               /\ greedy_decoded_batch[e] = Tokens(UpToEnd(GreedyPath(e)))
               /\ greedy_result[e] = Join(greedy_decoded_batch[e])

\* C11's case: of two elements the first chose the end token at once and the
\* second went on to choose another token
C11_Witness ==
    /\ dpc = "done"
    /\ call.batch_size = 2
    /\ Len(GreedyPath(1)) = 2
    /\ GreedyPath(1)[1] = EosId
    /\ greedy_decoded_batch[1] = <<"</s>">>
    /\ Len(greedy_decoded_batch[2]) = 2

RECURSIVE PathTo(_)
\* the ids on the parent links from the root's child down to node n
PathTo(n) ==
    IF nodes[n].prevNode = 0 THEN <<>>
    ELSE Append(PathTo(nodes[n].prevNode), nodes[n].wordid)

\* a sentence of the batch has just been decoded by beam search; the nodes of
\* its search are still there
BeamSentenceDecoded == dpc = "beam_sentence" /\ idx >= 1

\* the hypothesis that was decoded
Selected == BestHypothesis(completed_hypotheses)

\* C12 as claimed: the string of beam_search_decode is the complete token path
\* of the selected hypothesis, from the root's child to the selected node in
\* generation order, also when the start token was generated in the middle.
C12_BeamStringIsFullPath ==
    BeamSentenceDecoded =>
        beam_decoded_batch[idx] = Tokens(PathTo(Selected))

\* what the code does: the path is complete when no node of the hypothesis
\* above the selected one holds a generated start token
C12_FullPathWithoutStartToken ==
    BeamSentenceDecoded =>
        LET path == PathTo(Selected)
        IN  (\A j \in 1..(Len(path) - 1) : path[j] # SosId) =>
                beam_decoded_batch[idx] = Tokens(path)

\* the final hypothesis set of the sentence just decoded (line 303 has appended
\* the live hypotheses to the completed ones)
FinalSet == {completed_hypotheses[j] : j \in 1..Len(completed_hypotheses)}

\* no hypothesis had completed when the loop ended
ZeroCompleted == \A n \in FinalSet : ~IsCompleted(nodes[n])

\* C13: the decoded hypothesis has the highest cumulative log-probability among
\* the completed and the live hypotheses; when max_length is reached with zero
\* completed hypotheses no error is raised (the one error of the search is in
\* its first step, for a beam wider than the vocabulary), the best live
\* hypothesis is decoded and the string holds no end token.
C13_BestOfCompletedAndLive ==
    /\ dpc = "error" => (t = 0 /\ call.K > VocabSize)
    /\ BeamSentenceDecoded =>
           /\ \E n \in FinalSet :
                  /\ beam_decoded_batch[idx] = Utterance(n)
                  /\ \A m \in FinalSet : nodes[m].logp <= nodes[n].logp
           /\ ZeroCompleted =>
                  /\ t = call.max_length
                  /\ \A j \in DOMAIN beam_decoded_batch[idx] :
                         beam_decoded_batch[idx][j] # "</s>"

\* C13's case: max_length was reached with two live hypotheses and none
\* completed
C13_Witness ==
    /\ BeamSentenceDecoded
    /\ call.K = 2
    /\ call.max_length >= 2
    /\ t = call.max_length
    /\ ZeroCompleted
    /\ Len(completed_hypotheses) = 2
    /\ Len(beam_decoded_batch[idx]) >= 1

\* the while loop of beam search is running or has just ended (line 303 has
\* not yet appended the live hypotheses to the completed ones)
InBeamLoop == dpc \in {"beam_loop", "beam_select"}

SeqSet(sq) == {sq[j] : j \in 1..Len(sq)}

\* the nodes the last expansion step created
LastCreated == {n \in 1..Len(nodes) : nodes[n].prevNode # 0 /\ nodes[n].leng = t}

\* C17: a hypothesis whose last token is the end token is in the completed set
\* from the step that creates it, is never live and never the parent of a node;
\* the other candidates selected in a step, and nothing else, are the next live
\* set.
C17_EndTokenFinalizes ==
    InBeamLoop =>
        /\ \A n \in 1..Len(nodes) :
               /\ nodes[n].wordid = EosId <=> n \in SeqSet(completed_hypotheses)
               /\ nodes[n].wordid = EosId => n \notin SeqSet(live_hypotheses)
               /\ nodes[n].prevNode # 0 =>
                      nodes[nodes[n].prevNode].wordid # EosId
        /\ t >= 1 =>
               SeqSet(live_hypotheses) =
                   {n \in LastCreated : nodes[n].wordid # EosId}

\* C17's case: a step selected an end-token candidate and another one, and the
\* search went on from the other
C17_Witness ==
    /\ InBeamLoop
    /\ call.K = 2
    /\ t >= 2
    /\ Len(completed_hypotheses) = 1
    /\ nodes[completed_hypotheses[1]].leng = 1
    /\ Len(live_hypotheses) = 1
    /\ nodes[live_hypotheses[1]].leng = t

RECURSIVE Depth(_)
\* the parent links from node n to the root
Depth(n) == IF nodes[n].prevNode = 0 THEN 0 ELSE 1 + Depth(nodes[n].prevNode)

\* C18: the loop of beam search makes at most max_length expansion steps; it
\* goes on while fewer than K hypotheses have completed and stops before
\* max_length only with K completed; every parent link leads to an older node,
\* and the root is at most max_length links from any hypothesis.
C18_BeamTerminates ==
    InBeamLoop =>
        /\ t <= call.max_length
        /\ dpc = "beam_loop" =>
               (Len(completed_hypotheses) < call.K /\ t < call.max_length)
        /\ dpc = "beam_select" =>
               /\ Len(completed_hypotheses) = call.K \/ t = call.max_length
               /\ t < call.max_length => Len(completed_hypotheses) = call.K
        /\ \A n \in 1..Len(nodes) : nodes[n].prevNode < n
        /\ \A n \in SeqSet(completed_hypotheses) \cup SeqSet(live_hypotheses) :
               Depth(n) <= call.max_length

\* C18's case: the loop stopped before max_length, with K = 2 hypotheses
\* completed in different steps
C18_Witness ==
    /\ dpc = "beam_select"
    /\ call.K = 2
    /\ t < call.max_length
    /\ Len(completed_hypotheses) = 2
    /\ Depth(completed_hypotheses[1]) < Depth(completed_hypotheses[2])

\* C19: for 1 <= K <= vocabulary size, after every expansion step the completed
\* and the live hypotheses are K together, so a live hypothesis is left
\* whenever fewer than K have completed, and the final set has K entries.
C19_CompletedPlusLiveIsK ==
    (1 <= call.K /\ call.K <= VocabSize) =>
        /\ dpc # "error"
        /\ (InBeamLoop /\ t >= 1) =>
               /\ Len(completed_hypotheses) + Len(live_hypotheses) = call.K
               /\ Len(completed_hypotheses) < call.K => live_hypotheses # <<>>
        /\ BeamSentenceDecoded => Len(completed_hypotheses) = call.K

\* C19's case: after the second step of a search with K = 2, one hypothesis has
\* completed and one is live
C19_Witness ==
    /\ InBeamLoop
    /\ call.K = 2
    /\ t = 2
    /\ Len(completed_hypotheses) = 1
    /\ Len(live_hypotheses) = 1

(***************************************************************************)
(* decode and latent_sweep.                                                *)
(***************************************************************************)
\* a call of decode with one of the three strategies, on a model with two or
\* more latent dimensions
DecodeWithStrategy ==
    /\ api_call.method = "decode"
    /\ DecodingStrategy(api_call) \in Strategies
    /\ api_call.nz >= 2

\* C14 as claimed: for every batch of N >= 1 inputs and each strategy, decode
\* completes without error and returns exactly N strings.
C14_DecodeReturnsOnePerInput ==
    DecodeWithStrategy =>
        /\ api_pc # "error"
        /\ api_pc = "returned" => Len(returned) = api_call.N

\* what the code does: C14 holds of batches of two or more inputs, whose z
\* keeps both dimensions in z.squeeze()
C14_HoldsFromTwoInputs ==
    (DecodeWithStrategy /\ api_call.N >= 2) =>
        /\ api_pc # "error"
        /\ api_pc = "returned" => Len(returned) = api_call.N

\* the name in force is no strategy: given to the call, or given at
\* construction with no strategy passed to the call
InvalidStrategy == DecodingStrategy(api_call) \notin Strategies

\* C15 as claimed: with an invalid strategy name decode and latent_sweep end in
\* an error, never return a result, and do so before any encoding or decoding
\* work.
C15_InvalidStrategyFailsFirst ==
    InvalidStrategy =>
        /\ api_pc # "returned"
        /\ encoder_runs = 0
        /\ dpc = "idle"

\* what the code does: the call runs the encoder, then ends in an error without
\* running a decoder and without returning
C15_FailsAfterEncoding ==
    InvalidStrategy =>
        /\ api_pc \in {"called", "encoded", "error"}
        /\ api_pc # "called" => encoder_runs = 1
        /\ dpc = "idle"

====
